---- MODULE Spec2Model ----
(***************************************************************************)
(* Property document processor: text extraction, classification, regex     *)
(* entity extraction (main.py) and the batch handler of the Streamlit      *)
(* front end (app.py).  Texts are sequences of one-character strings so    *)
(* that the regular expressions of the rule tables are evaluated character *)
(* by character, with Python's leftmost, greedy, backtracking semantics.   *)
(***************************************************************************)
EXTENDS Integers, Sequences, FiniteSets, TLC

(* ------------------------------ characters ----------------------------- *)

Uppers ==
    <<"A","B","C","D","E","F","G","H","I","J","K","L","M",
      "N","O","P","Q","R","S","T","U","V","W","X","Y","Z">>

Lowers ==
    <<"a","b","c","d","e","f","g","h","i","j","k","l","m",
      "n","o","p","q","r","s","t","u","v","w","x","y","z">>

UpperSet == {Uppers[i] : i \in 1..Len(Uppers)}

LowerSet == {Lowers[i] : i \in 1..Len(Lowers)}

Digits == {"0","1","2","3","4","5","6","7","8","9"}

\* \s of the re module and the characters str.strip() removes
Whitespace == {" ", "\t", "\n", "\r", "\f"}

\* \w of the re module
WordChars == UpperSet \cup LowerSet \cup Digits \cup {"_"}

ToLower == [c \in UpperSet |-> Lowers[CHOOSE i \in 1..Len(Uppers) : Uppers[i] = c]]

ToUpper == [c \in LowerSet |-> Uppers[CHOOSE i \in 1..Len(Lowers) : Lowers[i] = c]]

Lower(c) == IF c \in UpperSet THEN ToLower[c] ELSE c

Upper(c) == IF c \in LowerSet THEN ToUpper[c] ELSE c

\* str.strip(): drop leading and trailing whitespace
strip(s) ==
    IF \A i \in 1..Len(s) : s[i] \in Whitespace
    THEN <<>>
    ELSE LET first == CHOOSE i \in 1..Len(s) :
                        /\ s[i] \notin Whitespace
                        /\ \A j \in 1..(i - 1) : s[j] \in Whitespace
             last  == CHOOSE i \in 1..Len(s) :
                        /\ s[i] \notin Whitespace
                        /\ \A j \in (i + 1)..Len(s) : s[j] \in Whitespace
         IN  SubSeq(s, first, last)

(* -------------------------- regular expressions ------------------------ *)

\* Syntax tree of the patterns.  Unbounded is the upper limit of + and *.
Unbounded == 0 - 1

Lit(s) == [t |-> "lit", s |-> s]

Cls(S) == [t |-> "cls", set |-> S]

Cat(rs) == [t |-> "seq", rs |-> rs]

Alt(rs) == [t |-> "alt", rs |-> rs]

Rep(r, lo, hi) == [t |-> "rep", r |-> r, lo |-> lo, hi |-> hi]

Plus(r) == Rep(r, 1, Unbounded)

Star(r) == Rep(r, 0, Unbounded)

Opt(r) == Rep(r, 0, 1)

GroupOpen == [t |-> "open"]

GroupClose == [t |-> "close"]

\* The first capturing group
Group(r) == Cat(<<GroupOpen, r, GroupClose>>)

NoMatch == <<>>

\* re.IGNORECASE: a character equals a literal, or is in a class, up to case
SameChar(c, d) == Lower(c) = Lower(d)

InClass(c, S) == c \in S \/ Lower(c) \in S \/ Upper(c) \in S

LitAt(s, text, i) ==
    /\ i + Len(s) - 1 <= Len(text)
    /\ \A j \in 1..Len(s) : SameChar(text[i + j - 1], s[j])

\* The number of characters from position i on that are in class S, at most hi
RunLength(S, text, i, hi) ==
    LET limit == IF hi = Unbounded \/ i + hi - 1 > Len(text) THEN Len(text) - i + 1 ELSE hi
    IN  IF \A n \in 1..limit : InClass(text[i + n - 1], S)
        THEN IF limit < 0 THEN 0 ELSE limit
        ELSE (CHOOSE n \in 1..limit :
                /\ ~InClass(text[i + n - 1], S)
                /\ \A k \in 1..(n - 1) : InClass(text[i + k - 1], S)) - 1

\* Backtracking matcher: match the regexes of todo one after the other from
\* position i; gs and ge are the bounds of group 1 seen so far.  The value is
\* the first success in the order in which re tries the alternatives
\* (alternation left to right, quantifiers greedy), or NoMatch.
RECURSIVE MatchFrom(_, _, _, _, _)
MatchFrom(todo, text, i, gs, ge) ==
    IF todo = <<>>
    THEN [gs |-> gs, ge |-> ge, end |-> i]
    ELSE LET r    == Head(todo)
             rest == Tail(todo)
         IN CASE r.t = "lit" ->
                   IF LitAt(r.s, text, i)
                   THEN MatchFrom(rest, text, i + Len(r.s), gs, ge)
                   ELSE NoMatch
              [] r.t = "cls" ->
                   IF i <= Len(text) /\ InClass(text[i], r.set)
                   THEN MatchFrom(rest, text, i + 1, gs, ge)
                   ELSE NoMatch
              [] r.t = "seq" -> MatchFrom(r.rs \o rest, text, i, gs, ge)
              [] r.t = "alt" ->
                   IF r.rs = <<>>
                   THEN NoMatch
                   ELSE LET first == MatchFrom(<<Head(r.rs)>> \o rest, text, i, gs, ge)
                        IN  IF first # NoMatch
                            THEN first
                            ELSE MatchFrom(<<Alt(Tail(r.rs))>> \o rest, text, i, gs, ge)
              [] r.t = "rep" /\ r.r.t = "cls" ->
                   \* a repeated class takes the longest run it can, then
                   \* gives characters back one at a time
                   LET run  == RunLength(r.r.set, text, i, r.hi)
                       good == {n \in r.lo..run :
                                  MatchFrom(rest, text, i + n, gs, ge) # NoMatch}
                   IN  IF good = {}
                       THEN NoMatch
                       ELSE MatchFrom(rest, text,
                                      i + (CHOOSE n \in good : \A k \in good : k <= n), gs, ge)
              [] r.t = "rep" /\ r.r.t # "cls" ->
                   LET again == IF r.hi = 0
                                THEN NoMatch
                                ELSE MatchFrom(<<r.r, Rep(r.r, r.lo - 1,
                                                         IF r.hi = Unbounded THEN Unbounded ELSE r.hi - 1)>>
                                               \o rest, text, i, gs, ge)
                   IN  IF again # NoMatch
                       THEN again
                       ELSE IF r.lo <= 0 THEN MatchFrom(rest, text, i, gs, ge) ELSE NoMatch
              [] r.t = "open"  -> MatchFrom(rest, text, i, i, ge)
              [] r.t = "close" -> MatchFrom(rest, text, i, gs, i)

\* re.findall(pattern, text, re.IGNORECASE) for a pattern with one group:
\* the group-1 strings of the non-overlapping matches, scanning left to right.
RECURSIVE FindFrom(_, _, _)
FindFrom(M, text, pos) ==
    IF \A s \in pos..(Len(text) + 1) : M[s] = NoMatch
    THEN <<>>
    ELSE LET s == CHOOSE s \in pos..(Len(text) + 1) :
                     /\ M[s] # NoMatch
                     /\ \A u \in pos..(s - 1) : M[u] = NoMatch
             m == M[s]
         IN  <<SubSeq(text, m.gs, m.ge - 1)>>
               \o FindFrom(M, text, IF m.end > s THEN m.end ELSE s + 1)

findall(pattern, text) ==
    LET M == [s \in 1..(Len(text) + 1) |-> MatchFrom(<<pattern>>, text, s, s, s)]
    IN  FindFrom(M, text, 1)

(* ------------------------------ rule tables ---------------------------- *)

\* [:\s]+
Sep == Plus(Cls({":"} \cup Whitespace))

\* (\$\d+(?:\.\d{2})?)
Money ==
    Group(Cat(<<Lit(<<"$">>), Plus(Cls(Digits)),
                Opt(Cat(<<Lit(<<".">>), Rep(Cls(Digits), 2, 2)>>))>>))

\* (\d{1,2}[/-]\d{1,2}[/-]\d{2,4})
Date ==
    Group(Cat(<<Rep(Cls(Digits), 1, 2), Cls({"/", "-"}), Rep(Cls(Digits), 1, 2),
                Cls({"/", "-"}), Rep(Cls(Digits), 2, 4)>>))

Rule(key, pattern) == [key |-> key, pattern |-> pattern]

lease_patterns ==
    << Rule("tenant_name",
            Cat(<<Alt(<<Lit(<<"t","e","n","a","n","t">>), Lit(<<"l","e","s","s","e","e">>)>>), Sep,
                  Group(Plus(Cls(UpperSet \cup LowerSet \cup Whitespace \cup {"."})))>>)),
       Rule("property_address",
            Cat(<<Alt(<<Lit(<<"p","r","o","p","e","r","t","y">>), Lit(<<"a","d","d","r","e","s","s">>)>>), Sep,
                  Group(Plus(Cls(Digits \cup WordChars \cup Whitespace \cup {","})))>>)),
       Rule("lease_term",
            Cat(<<Alt(<<Lit(<<"t","e","r","m">>), Lit(<<"d","u","r","a","t","i","o","n">>)>>), Sep,
                  Group(Cat(<<Plus(Cls(Digits)), Star(Cls(Whitespace)),
                              Alt(<<Lit(<<"m","o","n","t","h","s">>), Lit(<<"y","e","a","r","s">>), Lit(<<"m","o","n","t","h">>), Lit(<<"y","e","a","r">>)>>)>>))>>)),
       Rule("rent_amount",
            Cat(<<Alt(<<Lit(<<"r","e","n","t">>), Lit(<<"m","o","n","t","h","l","y"," ","p","a","y","m","e","n","t">>)>>), Sep, Money>>)),
       Rule("security_deposit",
            Cat(<<Alt(<<Lit(<<"s","e","c","u","r","i","t","y"," ","d","e","p","o","s","i","t">>), Lit(<<"d","e","p","o","s","i","t">>)>>), Sep, Money>>)),
       Rule("start_date",
            Cat(<<Alt(<<Lit(<<"s","t","a","r","t"," ","d","a","t","e">>), Lit(<<"c","o","m","m","e","n","c","e","m","e","n","t">>)>>), Sep, Date>>)),
       Rule("end_date",
            Cat(<<Alt(<<Lit(<<"e","n","d"," ","d","a","t","e">>), Lit(<<"t","e","r","m","i","n","a","t","i","o","n">>)>>), Sep, Date>>)) >>

invoice_patterns ==
    << Rule("invoice_number",
            Cat(<<Alt(<<Cat(<<Lit(<<"i","n","v","o","i","c","e">>), Star(Cls(Whitespace)), Lit(<<"#">>)>>),
                        Lit(<<"n","o",".">>)>>), Sep,
                  Group(Plus(Cls(UpperSet \cup Digits \cup {"-"})))>>)),
       Rule("invoice_date",
            Cat(<<Lit(<<"d","a","t","e">>), Sep, Date>>)),
       Rule("due_date",
            Cat(<<Lit(<<"d","u","e"," ","d","a","t","e">>), Sep, Date>>)),
       Rule("total_amount",
            Cat(<<Alt(<<Lit(<<"t","o","t","a","l">>), Lit(<<"a","m","o","u","n","t"," ","d","u","e">>)>>), Sep, Money>>)),
       Rule("vendor_name",
            Cat(<<Alt(<<Lit(<<"f","r","o","m">>), Lit(<<"v","e","n","d","o","r">>)>>), Sep,
                  Group(Plus(Cls(UpperSet \cup LowerSet \cup Whitespace \cup {"&", "."})))>>)),
       Rule("property_unit",
            Cat(<<Alt(<<Lit(<<"p","r","o","p","e","r","t","y">>), Lit(<<"u","n","i","t">>)>>), Sep,
                  Group(Plus(Cls(UpperSet \cup Digits \cup Whitespace \cup {"-"})))>>)) >>

id_patterns ==
    << Rule("full_name",
            Group(Cat(<<Cls(UpperSet), Plus(Cls(LowerSet)), Plus(Cls(Whitespace)),
                        Cls(UpperSet), Plus(Cls(LowerSet))>>))),
       Rule("date_of_birth", Date),
       Rule("id_number", Group(Rep(Cls(UpperSet \cup Digits), 8, 12))),
       Rule("expiry_date", Date),
       Rule("address",
            Group(Cat(<<Plus(Cls(Digits)), Plus(Cls(Whitespace)),
                        Plus(Cls(UpperSet \cup LowerSet \cup Whitespace)), Opt(Lit(<<",">>)),
                        Plus(Cls(Whitespace)),
                        Plus(Cls(UpperSet \cup LowerSet \cup Whitespace)), Opt(Lit(<<",">>)),
                        Plus(Cls(Whitespace)),
                        Rep(Cls(UpperSet), 2, 2)>>))) >>

(* ----------------------------- sample texts ---------------------------- *)

lease_content ==
    <<"R","E","S","I","D","E","N","T","I","A","L"," ","L","E","A","S","E"," ","A","G","R","E",
    "E","M","E","N","T","\n","\n","T","e","n","a","n","t",":"," ","J","o","h","n"," ","S","m",
    "i","t","h","\n","P","r","o","p","e","r","t","y"," ","A","d","d","r","e","s","s",":"," ",
    "1","2","3"," ","M","a","i","n"," ","S","t","r","e","e","t",","," ","A","p","a","r","t","m",
    "e","n","t"," ","4","B",","," ","N","e","w"," ","Y","o","r","k",","," ","N","Y"," ","1","0",
    "0","0","1","\n","L","e","a","s","e"," ","T","e","r","m",":"," ","1","2"," ","m","o","n",
    "t","h","s","\n","M","o","n","t","h","l","y"," ","R","e","n","t",":"," ","$","2","0","0",
    "0",".","0","0","\n","S","e","c","u","r","i","t","y"," ","D","e","p","o","s","i","t",":",
    " ","$","2","0","0","0",".","0","0","\n","S","t","a","r","t"," ","D","a","t","e",":"," ",
    "0","1","/","0","1","/","2","0","2","4","\n","E","n","d"," ","D","a","t","e",":"," ","1",
    "2","/","3","1","/","2","0","2","4">>

(* --------------------------- entity extraction ------------------------- *)

\* A dict is a function from its keys to its values
EmptyDict == [k \in {} |-> <<>>]

\* dict.update(other): the keys of other are added, overwriting equal keys
update(d, other) ==
    [k \in DOMAIN d \cup DOMAIN other |-> IF k \in DOMAIN other THEN other[k] ELSE d[k]]

\* Variant: a match that is empty after stripping is dropped
_extract_with_patterns_nonempty(text, patterns) ==
    LET matches == [i \in 1..Len(patterns) |-> findall(patterns[i].pattern, text)]
        matched == {i \in 1..Len(patterns) :
                      matches[i] # <<>> /\ strip(matches[i][1]) # <<>>}
    IN  [key \in {patterns[i].key : i \in matched} |->
           LET i == CHOOSE i \in matched :
                      /\ patterns[i].key = key
                      /\ \A j \in matched : patterns[j].key = key => j <= i
           IN  strip(matches[i][1])]

\* One entry per rule with at least one match: the first match, stripped
_extract_with_patterns(text, patterns) ==
    LET matches == [i \in 1..Len(patterns) |-> findall(patterns[i].pattern, text)]
        matched == {i \in 1..Len(patterns) : matches[i] # <<>>}
    IN  [key \in {patterns[i].key : i \in matched} |->
           LET i == CHOOSE i \in matched :
                      /\ patterns[i].key = key
                      /\ \A j \in matched : patterns[j].key = key => j <= i
           IN  strip(matches[i][1])]

_extract_lease_entities(text) == _extract_with_patterns(text, lease_patterns)

_extract_invoice_entities(text) == _extract_with_patterns(text, invoice_patterns)

_extract_id_entities(text) == _extract_with_patterns(text, id_patterns)

\* Variant: the fallback leaves out the id_document rules
extract_entities_without_id(text, doc_type) ==
    IF doc_type = "lease" THEN _extract_lease_entities(text)
    ELSE IF doc_type = "invoice" THEN _extract_invoice_entities(text)
    ELSE IF doc_type = "id_document" THEN _extract_id_entities(text)
    ELSE update(update(EmptyDict, _extract_lease_entities(text)),
                _extract_invoice_entities(text))

\* Variant: every type is handled like the fallback
extract_entities_all_rules(text, doc_type) ==
    update(update(update(EmptyDict, _extract_lease_entities(text)),
                  _extract_invoice_entities(text)),
           _extract_id_entities(text))

extract_entities(text, doc_type) ==
    IF doc_type = "lease" THEN _extract_lease_entities(text)
    ELSE IF doc_type = "invoice" THEN _extract_invoice_entities(text)
    ELSE IF doc_type = "id_document" THEN _extract_id_entities(text)
    ELSE update(update(update(EmptyDict, _extract_lease_entities(text)),
                       _extract_invoice_entities(text)),
                _extract_id_entities(text))

(* --------------------------------- paths ------------------------------- *)

\* str.lower()
lower(s) == [i \in 1..Len(s) |-> Lower(s[i])]

\* os.path.join(a, b) for a relative b
os_path_join(a, b) == a \o <<"/">> \o b

\* os.path.basename(p): what follows the last slash
os_path_basename(p) ==
    IF \A i \in 1..Len(p) : p[i] # "/"
    THEN p
    ELSE LET k == CHOOSE i \in 1..Len(p) :
                    p[i] = "/" /\ \A j \in (i + 1)..Len(p) : p[j] # "/"
         IN  SubSeq(p, k + 1, Len(p))

\* os.path.splitext(p)[1]: from the last dot of the basename, unless that dot
\* is one of its leading dots
os_path_splitext_ext(p) ==
    LET b == os_path_basename(p)
    IN  IF \A i \in 1..Len(b) : b[i] # "."
        THEN <<>>
        ELSE LET k == CHOOSE i \in 1..Len(b) :
                        b[i] = "." /\ \A j \in (i + 1)..Len(b) : b[j] # "."
             IN  IF \A j \in 1..(k - 1) : b[j] = "."
                 THEN <<>>
                 ELSE SubSeq(b, k, Len(b))

(* ------------------------------ text sources --------------------------- *)

\* What reading a file produces: its text, or a failure of the library or of
\* the decoding, with the message of the exception.
Readable(text) == [ok |-> TRUE, text |-> text]

Unreadable(exc) == [ok |-> FALSE, exc |-> exc]

Returned(value) == [raised |-> FALSE, value |-> value]

Raised(exc) == [raised |-> TRUE, exc |-> exc]

\* try: ... return text / except Exception: return ""
extract_text_from_pdf(src) == IF src.ok THEN Returned(src.text) ELSE Returned(<<>>)

extract_text_from_image(src) == IF src.ok THEN Returned(src.text) ELSE Returned(<<>>)

ImageExts == {<<".","j","p","g">>, <<".","j","p","e","g">>, <<".","p","n","g">>, <<".","t","i","f","f">>, <<".","b","m","p">>}

extract_text_from_file(file_path, src) ==
    LET file_ext == lower(os_path_splitext_ext(file_path))
    IN  IF file_ext = <<".","p","d","f">> THEN extract_text_from_pdf(src)
        ELSE IF file_ext \in ImageExts THEN extract_text_from_image(src)
        ELSE IF file_ext = <<".","t","x","t">>
             THEN IF src.ok THEN Returned(src.text) ELSE Raised(src.exc)
        ELSE Returned(<<>>)

(* ------------------------------ classifier ----------------------------- *)

document_classes == <<"lease", "invoice", "id_document", "unknown">>

\* The model's answer: the index of the largest logit, or a failure inside
\* the tokenizer or the model
ModelError == 0 - 1

Predictions == (0..(Len(document_classes) - 1)) \cup {ModelError}

classify_document(text, pred) ==
    IF strip(text) = <<>> THEN "unknown"
    ELSE IF pred = ModelError THEN "unknown"
    ELSE document_classes[pred + 1]

(* ------------------------------- pipeline ------------------------------ *)

TextLimit == 1000

\* Variant: tests the text without stripping it
no_text_unstripped(text) == text = <<>>

\* not text.strip()
no_text(text) == strip(text) = <<>>

error_record(file_path) ==
    [error |-> "No text could be extracted from document",
     file_name |-> os_path_basename(file_path)]

\* Variant: cuts the text without appending the marker
extracted_text_unmarked(text) ==
    IF Len(text) > TextLimit THEN SubSeq(text, 1, TextLimit) ELSE text

\* text[:1000] + "..." if len(text) > 1000 else text
extracted_text(text) ==
    IF Len(text) > TextLimit
    THEN SubSeq(text, 1, TextLimit) \o <<".", ".", ".">>
    ELSE text

\* Variant: the record does not carry the classifier's label
full_record_unlabelled(file_path, text, doc_type, ents, now) ==
    [document_type |-> "unknown",
     extracted_text |-> extracted_text(text),
     entities |-> ents,
     processing_date |-> now,
     file_name |-> os_path_basename(file_path),
     text_length |-> Len(text)]

full_record(file_path, text, doc_type, ents, now) ==
    [document_type |-> doc_type,
     extracted_text |-> extracted_text(text),
     entities |-> ents,
     processing_date |-> now,
     file_name |-> os_path_basename(file_path),
     text_length |-> Len(text)]

\* process_document as one call: what it returns or raises
process_document(file_path, src, pred, now) ==
    LET got == extract_text_from_file(file_path, src)
    IN  IF got.raised THEN got
        ELSE IF no_text(got.value) THEN Returned(error_record(file_path))
        ELSE LET label == classify_document(got.value, pred)
             IN  Returned(full_record(file_path, got.value, label,
                                      extract_entities(got.value, label), now))

(* -------------------------------- inputs ------------------------------- *)

\* Pieces of document text; the texts of the model are their concatenations
Fragments ==
    { <<"T","e","n","a","n","t",":">>,
      <<" ">>,
      <<"J","o","h","n"," ","S","m","i","t","h">>,
      <<"T","o","t","a","l",":"," ","$","2","0">>,
      <<"D","a","t","e",":"," ","1","/","2","/","2","4">> }

MaxFrags == 2

RECURSIVE TextsUpTo(_)
TextsUpTo(n) ==
    IF n = 0
    THEN {<<>>}
    ELSE LET shorter == TextsUpTo(n - 1)
         IN  shorter \cup {t \o f : t \in shorter, f \in Fragments}

\* The sample lease followed by a ruled line: more than TextLimit characters
RuleLength == 800

LongText == lease_content \o <<"\n">> \o [i \in 1..RuleLength |-> "-"]

Texts == TextsUpTo(MaxFrags) \cup {lease_content, LongText}

Sources == {Readable(t) : t \in Texts} \cup {Unreadable("read failed")}

FileNames == {<<"l","e","a","s","e",".","t","x","t">>, <<"s","c","a","n",".","P","D","F">>, <<"p","h","o","t","o",".","j","p","e","g">>, <<"n","o","t","e","s",".","d","o","c","x">>}

Paths == {os_path_join(<<"u","p","l","o","a","d","s">>, n) : n \in FileNames}

\* tf.timestamp() at the time of the call
Times == {1, 2}

\* Callers of extract_entities on one processor, and their documents
NumCallers == 2

Callers == 1..NumCallers

CallTexts == {<<"r","e","n","t"," ","$","5"," ","A","l"," ","N","g">>,
              <<"d","a","t","e"," ","1","/","2","/","2","4">>}

\* Files offered to the uploader: a name and what reading its content gives
MaxFiles == 2

UploadedFile(name, src) == [name |-> name, src |-> src]

AppFiles ==
    { UploadedFile(<<"l","e","a","s","e",".","t","x","t">>, Readable(<<"T","e","n","a","n","t",":"," ","J","o","h","n"," ","S","m","i","t","h">>)),
      UploadedFile(<<"l","e","a","s","e",".","t","x","t">>, Readable(<<" ">>)),
      UploadedFile(<<"b","a","d",".","t","x","t">>, Unreadable("invalid start byte")),
      UploadedFile(<<"s","c","a","n",".","p","d","f">>, Unreadable("cannot open broken document")) }

RECURSIVE BatchesUpTo(_)
BatchesUpTo(n) ==
    IF n = 0
    THEN {<<>>}
    ELSE LET shorter == BatchesUpTo(n - 1)
         IN  shorter \cup {Append(b, f) : b \in shorter, f \in AppFiles}

(* --------------------------------- state ------------------------------- *)

VARIABLES
    \* one call of process_document
    file_path,      \* its argument
    source,         \* what reading that file produces
    pc,             \* where the call is
    text,           \* local text
    doc_type,       \* local doc_type
    entities,       \* local entities
    result,         \* the returned record
    raised,         \* the call ended by an exception
    calls,          \* the calls it made, in order
    \* calls of extract_entities in flight on one processor
    frame,          \* per caller: position and locals text, doc_type, entities
    \* the session of the front end
    uploaded_files, \* the value of the file uploader
    uploads,        \* the uploads directory: file name -> content
    results,        \* st.session_state.results
    processing,     \* st.session_state.processing
    handler,        \* where the Process Documents handler is
    index,          \* the file its loop is at
    warned          \* the upload warning is shown

pipeline_vars == <<file_path, source, pc, text, doc_type, entities, result, raised, calls>>

caller_vars == <<frame>>

app_vars == <<uploaded_files, uploads, results, processing, handler, index, warned>>

vars == <<pipeline_vars, caller_vars, app_vars>>

NoResult == EmptyDict

IdleFrame == [pc |-> "idle", text |-> <<>>, doc_type |-> "none", entities |-> EmptyDict]

\* No call of process_document is being followed
PipelineIdle ==
    /\ file_path = <<>>
    /\ source = Readable(<<>>)
    /\ pc = "none"
    /\ text = <<>>
    /\ doc_type = "none"
    /\ entities = EmptyDict
    /\ result = NoResult
    /\ raised = FALSE
    /\ calls = <<>>

\* No call of extract_entities is in flight
CallersIdle == frame = [c \in Callers |-> IdleFrame]

\* Session state as initialised at the top of app.py
SessionInit ==
    /\ uploaded_files = <<>>
    /\ uploads = EmptyDict
    /\ results = <<>>
    /\ processing = FALSE
    /\ handler = "idle"
    /\ index = 0
    /\ warned = FALSE

(* ------------------------ one call of process_document ----------------- *)

Init ==
    /\ file_path \in Paths
    /\ source \in Sources
    /\ pc = "start"
    /\ text = <<>>
    /\ doc_type = "none"
    /\ entities = EmptyDict
    /\ result = NoResult
    /\ raised = FALSE
    /\ calls = <<>>
    /\ CallersIdle
    /\ SessionInit

\* text = self.extract_text_from_file(file_path)
ExtractText ==
    /\ pc = "start"
    /\ LET got == extract_text_from_file(file_path, source)
       IN  /\ raised' = got.raised
           /\ text' = IF got.raised THEN text ELSE got.value
           /\ pc' = IF got.raised THEN "done" ELSE "check"
    /\ calls' = Append(calls, [fn |-> "extract_text_from_file", args |-> <<file_path>>])
    /\ UNCHANGED <<file_path, source, doc_type, entities, result, caller_vars, app_vars>>

\* if not text.strip(): return {error, file_name}
ReturnNoText ==
    /\ pc = "check"
    /\ no_text(text)
    /\ result' = error_record(file_path)
    /\ pc' = "done"
    /\ UNCHANGED <<file_path, source, text, doc_type, entities, raised, calls, caller_vars, app_vars>>

\* doc_type = self.classify_document(text)
Classify ==
    /\ pc = "check"
    /\ ~no_text(text)
    /\ \E pred \in Predictions :
         /\ doc_type' = classify_document(text, pred)
         /\ calls' = Append(calls, [fn |-> "classify_document", args |-> <<text>>,
                                    ret |-> classify_document(text, pred)])
    /\ pc' = "classified"
    /\ UNCHANGED <<file_path, source, text, entities, result, raised, caller_vars, app_vars>>

\* entities = self.extract_entities(text, doc_type)
ExtractEntities ==
    /\ pc = "classified"
    /\ entities' = extract_entities(text, doc_type)
    /\ calls' = Append(calls, [fn |-> "extract_entities", args |-> <<text, doc_type>>])
    /\ pc' = "extracted"
    /\ UNCHANGED <<file_path, source, text, doc_type, result, raised, caller_vars, app_vars>>

\* return {document_type, extracted_text, entities, processing_date, ...}
ReturnRecord ==
    /\ pc = "extracted"
    /\ \E now \in Times :
         result' = full_record(file_path, text, doc_type, entities, now)
    /\ pc' = "done"
    /\ UNCHANGED <<file_path, source, text, doc_type, entities, raised, calls, caller_vars, app_vars>>

Next == ExtractText \/ ReturnNoText \/ Classify \/ ExtractEntities \/ ReturnRecord

Spec == Init /\ [][Next]_vars

(* ---------------- concurrent calls of extract_entities ----------------- *)

\* The dict a call updates: its local variable entities
entities_shared(c) == frame[CHOOSE d \in Callers : \A e \in Callers : d <= e].entities

entities_of(c) == frame[c].entities

\* extract_entities(text, doc_type) is entered: entities = {}
CallExtract(c) ==
    /\ frame[c].pc \in {"idle", "returned"}
    /\ \E t \in CallTexts, n \in 1..Len(document_classes) :
         frame' = [frame EXCEPT ![c] = [pc |-> "dispatch", text |-> t,
                                        doc_type |-> document_classes[n],
                                        entities |-> EmptyDict]]
    /\ UNCHANGED <<pipeline_vars, app_vars>>

\* One of the three typed branches, and return entities
TypedBranch(c) ==
    /\ frame[c].pc = "dispatch"
    /\ frame[c].doc_type \in {"lease", "invoice", "id_document"}
    /\ frame' = [frame EXCEPT
                   ![c].entities =
                      IF frame[c].doc_type = "lease" THEN _extract_lease_entities(frame[c].text)
                      ELSE IF frame[c].doc_type = "invoice"
                           THEN _extract_invoice_entities(frame[c].text)
                      ELSE _extract_id_entities(frame[c].text),
                   ![c].pc = "returned"]
    /\ UNCHANGED <<pipeline_vars, app_vars>>

\* else: entities.update(self._extract_lease_entities(text))
UpdateLease(c) ==
    /\ frame[c].pc = "dispatch"
    /\ frame[c].doc_type \notin {"lease", "invoice", "id_document"}
    /\ frame' = [frame EXCEPT
                   ![c].entities = update(entities_of(c), _extract_lease_entities(frame[c].text)),
                   ![c].pc = "invoice"]
    /\ UNCHANGED <<pipeline_vars, app_vars>>

\* entities.update(self._extract_invoice_entities(text))
UpdateInvoice(c) ==
    /\ frame[c].pc = "invoice"
    /\ frame' = [frame EXCEPT
                   ![c].entities = update(entities_of(c), _extract_invoice_entities(frame[c].text)),
                   ![c].pc = "id"]
    /\ UNCHANGED <<pipeline_vars, app_vars>>

\* entities.update(self._extract_id_entities(text)), and return entities
UpdateId(c) ==
    /\ frame[c].pc = "id"
    /\ frame' = [frame EXCEPT
                   ![c].entities = update(entities_of(c), _extract_id_entities(frame[c].text)),
                   ![c].pc = "returned"]
    /\ UNCHANGED <<pipeline_vars, app_vars>>

InitCalls == PipelineIdle /\ CallersIdle /\ SessionInit

NextCalls ==
    \E c \in Callers :
        \/ CallExtract(c)
        \/ TypedBranch(c)
        \/ UpdateLease(c)
        \/ UpdateInvoice(c)
        \/ UpdateId(c)

SpecCalls == InitCalls /\ [][NextCalls]_vars

(* --------------------- the Process Documents handler ------------------- *)

\* The save loop: each file is written to uploads/<name>, a later file of the
\* same name replacing an earlier one
RECURSIVE save_files(_, _)
save_files(dir, files) ==
    IF files = <<>>
    THEN dir
    ELSE save_files([n \in DOMAIN dir \cup {Head(files).name} |->
                        IF n = Head(files).name THEN Head(files).src ELSE dir[n]],
                    Tail(files))

\* Variant: a file whose processing raises leaves no record
append_result_or_skip(rs, uploaded_file, outcome) ==
    IF outcome.raised THEN rs ELSE Append(rs, outcome.value)

\* try: results.append(result) / except Exception as e: results.append({...})
append_result(rs, uploaded_file, outcome) ==
    IF outcome.raised
    THEN Append(rs, [error |-> outcome.exc, file_name |-> uploaded_file.name])
    ELSE Append(rs, outcome.value)

\* The button is pressed with files in the uploader
ClickProcess ==
    /\ handler = "idle"
    /\ \E files \in BatchesUpTo(MaxFiles) \ {<<>>} :
         /\ uploaded_files' = files
         /\ uploads' = save_files(uploads, files)
    /\ processing' = TRUE
    /\ results' = <<>>
    /\ handler' = "loop"
    /\ index' = 1
    /\ warned' = FALSE
    /\ UNCHANGED <<pipeline_vars, caller_vars>>

\* The button is pressed with no file in the uploader
ClickEmpty ==
    /\ handler = "idle"
    /\ uploaded_files' = <<>>
    /\ warned' = TRUE
    /\ UNCHANGED <<uploads, results, processing, handler, index>>
    /\ UNCHANGED <<pipeline_vars, caller_vars>>

\* One turn of the processing loop
ProcessFile ==
    /\ handler = "loop"
    /\ index <= Len(uploaded_files)
    /\ LET uploaded_file == uploaded_files[index]
           path == os_path_join(<<"u","p","l","o","a","d","s">>, uploaded_file.name)
       IN  \E pred \in Predictions, now \in Times :
             results' = append_result(results, uploaded_file,
                                      process_document(path, uploads[uploaded_file.name],
                                                       pred, now))
    /\ index' = index + 1
    /\ UNCHANGED <<uploaded_files, uploads, processing, handler, warned>>
    /\ UNCHANGED <<pipeline_vars, caller_vars>>

\* After the loop: processing = False, st.rerun()
FinishBatch ==
    /\ handler = "loop"
    /\ index > Len(uploaded_files)
    /\ processing' = FALSE
    /\ handler' = "idle"
    /\ UNCHANGED <<uploaded_files, uploads, results, index, warned>>
    /\ UNCHANGED <<pipeline_vars, caller_vars>>

InitApp == PipelineIdle /\ CallersIdle /\ SessionInit

NextApp == ClickProcess \/ ClickEmpty \/ ProcessFile \/ FinishBatch

SpecApp == InitApp /\ [][NextApp]_vars

(* ------------------------- properties of the pipeline ------------------ *)

WhitespaceOnly(t) == \A i \in 1..Len(t) : t[i] \in Whitespace

KeysOf(patterns) == {patterns[i].key : i \in 1..Len(patterns)}

\* The rule sets a document type selects, in the order they are applied
RuleSets(type) ==
    CASE type = "lease" -> <<lease_patterns>>
      [] type = "invoice" -> <<invoice_patterns>>
      [] type = "id_document" -> <<id_patterns>>
      [] OTHER -> <<lease_patterns, invoice_patterns, id_patterns>>

\* The positions of text at which a pattern matches
MatchStarts(pattern, t) ==
    {s \in 1..(Len(t) + 1) : MatchFrom(<<pattern>>, t, s, s, s) # NoMatch}

\* Group 1 of the leftmost match
FirstGroup(pattern, t) ==
    LET starts == MatchStarts(pattern, t)
        s == CHOOSE s \in starts : \A u \in starts : s <= u
        m == MatchFrom(<<pattern>>, t, s, s, s)
    IN  SubSeq(t, m.gs, m.ge - 1)

\* C1: a file whose extracted text is empty or whitespace-only yields a record
\* with exactly the keys error and file_name: the fixed message and the
\* basename of the path.
C1_NoTextRecord ==
    (pc = "done" /\ ~raised /\ WhitespaceOnly(text)) =>
        /\ DOMAIN result = {"error", "file_name"}
        /\ result.error = "No text could be extracted from document"
        /\ result.file_name \in FileNames
        /\ file_path = <<"u","p","l","o","a","d","s">> \o <<"/">> \o result.file_name

C1_Witness ==
    /\ pc = "done"
    /\ ~raised
    /\ text # <<>>
    /\ WhitespaceOnly(text)
    /\ DOMAIN result = {"error", "file_name"}

\* C2: for the unknown type the entities are the lease result overlaid by the
\* invoice result overlaid by the id_document result: every field matched by
\* one of the three sets is present, with the value of the last set that has it.
C2_UnknownMerge ==
    (pc = "extracted" /\ doc_type = "unknown") =>
        LET l == _extract_with_patterns(text, lease_patterns)
            v == _extract_with_patterns(text, invoice_patterns)
            d == _extract_with_patterns(text, id_patterns)
        IN  /\ DOMAIN entities = DOMAIN l \cup DOMAIN v \cup DOMAIN d
            /\ \A k \in DOMAIN entities :
                 entities[k] = IF k \in DOMAIN d THEN d[k]
                               ELSE IF k \in DOMAIN v THEN v[k]
                               ELSE l[k]

C2_Witness ==
    /\ pc = "extracted"
    /\ doc_type = "unknown"
    /\ {"tenant_name", "invoice_date", "full_name"} \subseteq DOMAIN entities

\* C3: for lease, invoice and id_document only that type's rule set is
\* applied: the entities are that set's extraction and no key belongs to a
\* rule of the other two sets.
C3_OwnRuleSetOnly ==
    (pc = "extracted" /\ doc_type \in {"lease", "invoice", "id_document"}) =>
        LET own == RuleSets(doc_type)[1]
        IN  /\ entities = _extract_with_patterns(text, own)
            /\ DOMAIN entities \subseteq KeysOf(own)
            /\ \A other \in {lease_patterns, invoice_patterns, id_patterns} \ {own} :
                 DOMAIN entities \cap KeysOf(other) = {}

C3_Witness ==
    /\ pc = "extracted"
    /\ doc_type = "invoice"
    /\ DOMAIN entities = {"total_amount"}
    /\ "tenant_name" \in DOMAIN _extract_with_patterns(text, lease_patterns)

\* C4: the field of an applied rule is a key of the entities exactly when its
\* pattern matches somewhere in the text; a match whose group is empty after
\* trimming is stored as the empty string.
C4_KeyIffMatch ==
    pc = "extracted" =>
        \A n \in 1..Len(RuleSets(doc_type)) :
          \A i \in 1..Len(RuleSets(doc_type)[n]) :
            LET rule == RuleSets(doc_type)[n][i]
                hit  == MatchStarts(rule.pattern, text) # {}
            IN  /\ rule.key \in DOMAIN entities <=> hit
                /\ (hit /\ WhitespaceOnly(FirstGroup(rule.pattern, text)))
                     => entities[rule.key] = <<>>

C4_Witness ==
    /\ pc = "extracted"
    /\ "tenant_name" \in DOMAIN entities
    /\ entities["tenant_name"] = <<>>
    /\ "rent_amount" \notin DOMAIN entities

\* C5 as stated: the record of a file with text carries the full text, its
\* length, and the entities of the full text.
C5_FullText ==
    (pc = "done" /\ ~raised /\ ~WhitespaceOnly(text)) =>
        /\ result.extracted_text = text
        /\ result.text_length = Len(text)
        /\ calls[3].args[1] = text
        /\ result.entities = entities

\* C5 amended: extracted_text is the full text up to 1000 characters and
\* otherwise its first 1000 characters followed by "..."; text_length is the
\* length of the full text and the entities are those of the full text.
C5_TruncatedText ==
    (pc = "done" /\ ~raised /\ ~WhitespaceOnly(text)) =>
        /\ Len(text) <= 1000 => result.extracted_text = text
        /\ Len(text) > 1000 =>
             /\ Len(result.extracted_text) = 1003
             /\ \A i \in 1..1000 : result.extracted_text[i] = text[i]
             /\ \A i \in 1001..1003 : result.extracted_text[i] = "."
        /\ result.text_length = Len(text)
        /\ calls[3].args[1] = text
        /\ result.entities = entities

C5_Witness ==
    /\ pc = "done"
    /\ Len(text) > 1000
    /\ "extracted_text" \in DOMAIN result
    /\ Len(result.extracted_text) < Len(text)

\* C6: process_document never ends by an exception; a failing text source
\* shows only as a record with the error field.
C6_NeverRaises ==
    pc = "done" =>
        /\ ~raised
        /\ ~source.ok => "error" \in DOMAIN result

\* C7: the sample lease, classified as lease, gives tenant_name "John Smith",
\* lease_term "12 months", rent_amount and security_deposit "$2000.00".
C7_SampleLease ==
    (pc = "extracted" /\ text = lease_content /\ doc_type = "lease") =>
        /\ {"tenant_name", "lease_term", "rent_amount", "security_deposit"}
             \subseteq DOMAIN entities
        /\ entities["tenant_name"] = <<"J","o","h","n"," ","S","m","i","t","h">>
        /\ entities["lease_term"] = <<"1","2"," ","m","o","n","t","h","s">>
        /\ entities["rent_amount"] = <<"$","2","0","0","0",".","0","0">>
        /\ entities["security_deposit"] = <<"$","2","0","0","0",".","0","0">>

\* C8: a call makes its calls in the order text extraction, classification,
\* entity extraction, each at most once; the classifier is not called on
\* empty or whitespace-only text, it is called on the full text, and the
\* extractor gets the label it returned, which is the record's document_type.
StepOrder == <<"extract_text_from_file", "classify_document", "extract_entities">>

C8_StepOrder ==
    /\ Len(calls) <= Len(StepOrder)
    /\ \A i \in 1..Len(calls) : calls[i].fn = StepOrder[i]
    /\ (pc # "start" /\ ~raised /\ WhitespaceOnly(text)) => Len(calls) = 1
    /\ Len(calls) >= 2 => calls[2].args = <<text>>
    /\ Len(calls) = 3 => calls[3].args = <<text, calls[2].ret>>
    /\ (pc = "done" /\ ~raised /\ ~WhitespaceOnly(text)) =>
         /\ Len(calls) = 3
         /\ result.document_type = calls[2].ret

C8_Witness ==
    /\ pc = "done"
    /\ Len(calls) = 3
    /\ calls[2].ret = "invoice"
    /\ result.document_type = "invoice"

(* ------------------------ properties of the callers -------------------- *)

\* C9: a call of extract_entities returns what (text, doc_type) determine,
\* whatever other calls are in flight on the processor: the mapping of the
\* call run alone, and the same mapping for the same inputs.
C9_CallsIndependent ==
    /\ \A c \in Callers :
         frame[c].pc = "returned" =>
           frame[c].entities = extract_entities(frame[c].text, frame[c].doc_type)
    /\ \A c, d \in Callers :
         (/\ frame[c].pc = "returned"
          /\ frame[d].pc = "returned"
          /\ frame[c].text = frame[d].text
          /\ frame[c].doc_type = frame[d].doc_type)
           => frame[c].entities = frame[d].entities

C9_Witness ==
    \E c, d \in Callers :
        /\ frame[c].pc = "returned"
        /\ frame[c].doc_type = "unknown"
        /\ frame[c].entities # EmptyDict
        /\ frame[d].pc = "id"
        /\ frame[d].text # frame[c].text
        /\ frame[d].entities # EmptyDict

(* ------------------------ properties of the handler -------------------- *)

\* What the save loop leaves under the name of the k-th file of a batch: the
\* content of the last file of the batch with that name
SavedContent(files, k) ==
    LET same == {j \in 1..Len(files) : files[j].name = files[k].name}
    IN  files[CHOOSE j \in same : \A m \in same : m <= j].src

IsTxt(name) == Len(name) >= 4 /\ SubSeq(name, Len(name) - 3, Len(name)) = <<".","t","x","t">>

====
